---- MODULE Spec2Model ----
(***************************************************************************)
(* Model of the 5 Takes rules engine: Card, Deck, Row, Table, Player,      *)
(* GameRules and Game (src/src/game).  Cards are their integer values.     *)
(* An Optional value is a sequence: <<>> is None and <<x>> holds x.        *)
(* Row indices are 0-based as in the code; rows[i + 1] is row i.           *)
(***************************************************************************)
EXTENDS Integers, Sequences, FiniteSets, TLC

\* ---------------------------------------------------------------- constants
MIN_PLAYERS == 3
MAX_PLAYERS == 10
\* GameRules.CARDS_PER_PLAYER as the code has it; the game specifications
\* deal hands of HandSize cards
CARDS_PER_PLAYER_FULL == 10
TOTAL_CARDS == 104
STARTING_ROWS == 4
MAX_CARDS == 5
NUM_ROWS == 4
GAME_END_SCORE == 50

\* ------------------------------------------------------------------- bounds
\* cards dealt to each player by start_new_round (CARDS_PER_PLAYER in the code)
HandSize == 2
\* number of calls of set_forced_row_choice in one behaviour
MaxForcedChoices == 1
\* highest card value handed to a Row or Table directly in SpecRow and SpecTable
MaxTableCard == 5
\* number of Table.place_card calls in one SpecTable behaviour
MaxTableOps == 4
\* number of rounds started in one SpecRounds behaviour
MaxRounds == 2
\* highest total score a direct add_penalty_points call may produce in SpecRounds
MaxTotal == 51

CARDS_PER_PLAYER == HandSize
NumPlayers == MIN_PLAYERS
Players == 1..NumPlayers
DeckSize == STARTING_ROWS + NumPlayers * HandSize

None == <<>>
Some(x) == <<x>>
Get(o) == o[1]

\* --------------------------------------------------------------- sequences
RECURSIVE SumSeq(_)
SumSeq(s) == IF s = <<>> THEN 0 ELSE Head(s) + SumSeq(Tail(s))

Reverse(s) == [i \in 1..Len(s) |-> s[Len(s) + 1 - i]]

SeqToSet(s) == {s[i] : i \in 1..Len(s)}

\* list.sort() / sorted() of a list of cards (ascending, duplicates kept)
RECURSIVE SortCards(_)
SortCards(s) ==
    IF s = <<>> THEN <<>>
    ELSE LET i == CHOOSE k \in 1..Len(s) :
                      \A j \in 1..Len(s) : s[k] < s[j] \/ (s[k] = s[j] /\ k <= j)
         IN <<s[i]>> \o SortCards(SubSeq(s, 1, i - 1) \o SubSeq(s, i + 1, Len(s)))

\* list.remove(x): drops the first occurrence
RemoveFirst(s, x) ==
    LET i == CHOOSE k \in 1..Len(s) : s[k] = x /\ \A j \in 1..(k - 1) : s[j] # x
    IN SubSeq(s, 1, i - 1) \o SubSeq(s, i + 1, Len(s))

\* -------------------------------------------------------------------- Card
\* mutant of points: the multiples of 11 are looked at first
points_eleven(value) ==
    IF value % 11 = 0 THEN 5
    ELSE IF value = 55 THEN 7
    ELSE IF value % 10 = 0 THEN 3
    ELSE IF value % 5 = 0 THEN 2
    ELSE 1

points(value) ==
    IF value = 55 THEN 7
    ELSE IF value % 11 = 0 THEN 5
    ELSE IF value % 10 = 0 THEN 3
    ELSE IF value % 5 = 0 THEN 2
    ELSE 1

\* -------------------------------------------------------------------- Deck
\* a deck is the list _cards; deal_card pops its last element
deal_card(d) ==
    IF d = <<>>
    THEN [raised |-> TRUE, card |-> None, deck |-> d]
    ELSE [raised |-> FALSE, card |-> Some(d[Len(d)]), deck |-> SubSeq(d, 1, Len(d) - 1)]

\* mutant of deal_cards: the remaining cards are dealt before the failure
deal_cards_partial(d, count) ==
    IF count > Len(d)
    THEN [raised |-> TRUE, cards |-> <<>>, deck |-> <<>>]
    ELSE [raised |-> FALSE,
          cards |-> [i \in 1..count |-> d[Len(d) + 1 - i]],
          deck  |-> SubSeq(d, 1, Len(d) - count)]

\* mutant of deal_cards: the dealt cards stay in the deck
deal_cards_peek(d, count) ==
    IF count > Len(d)
    THEN [raised |-> TRUE, cards |-> <<>>, deck |-> d]
    ELSE [raised |-> FALSE,
          cards |-> [i \in 1..count |-> d[Len(d) + 1 - i]],
          deck  |-> d]

\* mutant of deal_cards: the last card of the deck cannot be dealt
deal_cards_short(d, count) ==
    IF count >= Len(d)
    THEN [raised |-> TRUE, cards |-> <<>>, deck |-> d]
    ELSE [raised |-> FALSE,
          cards |-> [i \in 1..count |-> d[Len(d) + 1 - i]],
          deck  |-> SubSeq(d, 1, Len(d) - count)]

\* deal_cards: count calls of deal_card, after the check of the count
deal_cards(d, count) ==
    IF count > Len(d)
    THEN [raised |-> TRUE, cards |-> <<>>, deck |-> d]
    ELSE [raised |-> FALSE,
          cards |-> [i \in 1..count |-> d[Len(d) + 1 - i]],
          deck  |-> SubSeq(d, 1, Len(d) - count)]

\* --------------------------------------------------------------------- Row
last_card(cards) == cards[Len(cards)]

\* mutant of is_full: off by one
is_full_above(cards) == Len(cards) > MAX_CARDS

is_full(cards) == Len(cards) >= MAX_CARDS

can_place_card(cards, card) == card > last_card(cards) /\ ~is_full(cards)

\* mutant of Row_place_card: the full row is reported as wiped but not reset
Row_place_card_keep(cards, card) ==
    IF ~(card > last_card(cards)) \/ is_full(cards)
    THEN [raised |-> TRUE, cards |-> cards, wiped |-> None]
    ELSE LET appended == Append(cards, card) IN
         IF is_full(appended)
         THEN [raised |-> FALSE, cards |-> appended,
               wiped |-> Some(SubSeq(appended, 1, Len(appended) - 1))]
         ELSE [raised |-> FALSE, cards |-> appended, wiped |-> None]

\* mutant of Row_place_card: the row grows without ever being wiped
Row_place_card_grow(cards, card) ==
    IF ~(card > last_card(cards))
    THEN [raised |-> TRUE, cards |-> cards, wiped |-> None]
    ELSE [raised |-> FALSE, cards |-> Append(cards, card), wiped |-> None]

\* mutant of Row_place_card: the card is not compared with the last card
Row_place_card_unchecked(cards, card) ==
    IF is_full(cards)
    THEN [raised |-> TRUE, cards |-> cards, wiped |-> None]
    ELSE LET appended == Append(cards, card) IN
         IF is_full(appended)
         THEN [raised |-> FALSE, cards |-> <<card>>,
               wiped |-> Some(SubSeq(appended, 1, Len(appended) - 1))]
         ELSE [raised |-> FALSE, cards |-> appended, wiped |-> None]

Row_place_card(cards, card) ==
    IF ~(card > last_card(cards))
    THEN [raised |-> TRUE, cards |-> cards, wiped |-> None]
    ELSE IF is_full(cards)
    THEN [raised |-> TRUE, cards |-> cards, wiped |-> None]
    ELSE LET appended == Append(cards, card) IN
         IF is_full(appended)
         THEN [raised |-> FALSE, cards |-> <<card>>,
               wiped |-> Some(SubSeq(appended, 1, Len(appended) - 1))]
         ELSE [raised |-> FALSE, cards |-> appended, wiped |-> None]

\* mutant of wipe_and_replace: the row keeps its cards
wipe_and_replace_keep(cards, new_card) ==
    [cards |-> cards, wiped |-> cards]

\* mutant of wipe_and_replace: the new card is added behind the old cards
wipe_and_replace_append(cards, new_card) ==
    [cards |-> Append(cards, new_card), wiped |-> cards]

wipe_and_replace(cards, new_card) ==
    [cards |-> <<new_card>>, wiped |-> cards]

\* ------------------------------------------------------------------- Table
Table(starting_cards) == [i \in 1..Len(starting_cards) |-> <<starting_cards[i]>>]

\* mutant of find_target_scan: keeps the largest gap
RECURSIVE find_target_scan_largest(_, _, _, _, _)
find_target_scan_largest(rows, card, i, best_row, smallest_gap) ==
    IF i >= Len(rows) THEN best_row
    ELSE LET gap == card - last_card(rows[i + 1]) IN
         IF can_place_card(rows[i + 1], card)
            /\ (best_row = None \/ gap > smallest_gap)
         THEN find_target_scan_largest(rows, card, i + 1, Some(i), gap)
         ELSE find_target_scan_largest(rows, card, i + 1, best_row, smallest_gap)

\* the loop of find_target_row from row i on; smallest_gap is infinite
\* exactly while best_row is None
RECURSIVE find_target_scan(_, _, _, _, _)
find_target_scan(rows, card, i, best_row, smallest_gap) ==
    IF i >= Len(rows) THEN best_row
    ELSE LET gap == card - last_card(rows[i + 1]) IN
         IF can_place_card(rows[i + 1], card)
            /\ (best_row = None \/ gap < smallest_gap)
         THEN find_target_scan(rows, card, i + 1, Some(i), gap)
         ELSE find_target_scan(rows, card, i + 1, best_row, smallest_gap)

\* mutant of find_target_row: the first row that accepts the card
find_target_row_first(rows, card) ==
    LET ok == {i \in 0..(Len(rows) - 1) : can_place_card(rows[i + 1], card)} IN
    IF ok = {} THEN None ELSE Some(CHOOSE i \in ok : \A j \in ok : i <= j)

find_target_row(rows, card) == find_target_scan(rows, card, 0, None, 0)

must_wipe_row(rows, card) == find_target_row(rows, card) = None

get_row_choices == [i \in 1..NUM_ROWS |-> i - 1]

\* mutant of Table_place_card: a forced row is only used when no row accepts the card
Table_place_card_unforced(rows, card, forced_row) ==
    IF forced_row # None /\ find_target_row(rows, card) = None
    THEN IF ~(0 <= Get(forced_row) /\ Get(forced_row) < NUM_ROWS)
         THEN [raised |-> TRUE, rows |-> rows, row_index |-> None, wiped |-> None]
         ELSE LET w == wipe_and_replace(rows[Get(forced_row) + 1], card) IN
              [raised |-> FALSE,
               rows |-> [rows EXCEPT ![Get(forced_row) + 1] = w.cards],
               row_index |-> forced_row, wiped |-> Some(w.wiped)]
    ELSE LET target_row == find_target_row(rows, card) IN
         IF target_row = None
         THEN [raised |-> TRUE, rows |-> rows, row_index |-> None, wiped |-> None]
         ELSE LET r == Row_place_card(rows[Get(target_row) + 1], card) IN
              [raised |-> r.raised,
               rows |-> [rows EXCEPT ![Get(target_row) + 1] = r.cards],
               row_index |-> target_row, wiped |-> r.wiped]

Table_place_card(rows, card, forced_row) ==
    IF forced_row # None
    THEN IF ~(0 <= Get(forced_row) /\ Get(forced_row) < NUM_ROWS)
         THEN [raised |-> TRUE, rows |-> rows, row_index |-> None, wiped |-> None]
         ELSE LET w == wipe_and_replace(rows[Get(forced_row) + 1], card) IN
              [raised |-> FALSE,
               rows |-> [rows EXCEPT ![Get(forced_row) + 1] = w.cards],
               row_index |-> forced_row, wiped |-> Some(w.wiped)]
    ELSE LET target_row == find_target_row(rows, card) IN
         IF target_row = None
         THEN [raised |-> TRUE, rows |-> rows, row_index |-> None, wiped |-> None]
         ELSE LET r == Row_place_card(rows[Get(target_row) + 1], card) IN
              [raised |-> r.raised,
               rows |-> [rows EXCEPT ![Get(target_row) + 1] = r.cards],
               row_index |-> target_row, wiped |-> r.wiped]

\* --------------------------------------------------------------- GameRules
all_players_selected(sel) == \A p \in Players : sel[p] # None

\* mutant of calculate_penalty_points: one point per card
calculate_penalty_points_count(cards) == Len(cards)

calculate_penalty_points(cards) == SumSeq([i \in 1..Len(cards) |-> points(cards[i])])

\* is_game_over: some player has more than GAME_END_SCORE points
GameRules_is_game_over(total) == \E p \in Players : total[p] > GAME_END_SCORE

\* mutant of find_winner: max() instead of min()
find_winner_highest(total) ==
    CHOOSE p \in Players :
        \A q \in Players : total[p] > total[q] \/ (total[p] = total[q] /\ p <= q)

\* find_winner: min() returns the first of the players with the lowest total
find_winner(total) ==
    CHOOSE p \in Players :
        \A q \in Players : total[p] < total[q] \/ (total[p] = total[q] /\ p <= q)

\* mutant of is_round_over: a last card in a hand is not counted
is_round_over_early(hand) == \A p \in Players : Len(hand[p]) <= 1

\* is_round_over: every player's hand_size is 0
is_round_over(hand) == \A p \in Players : Len(hand[p]) = 0

\* sorted() is stable: equal keys keep the order of the players list
RECURSIVE sort_by_key(_, _)
sort_by_key(S, sel) ==
    IF S = {} THEN <<>>
    ELSE LET m == CHOOSE p \in S : \A q \in S :
                      Get(sel[p]) < Get(sel[q]) \/ (Get(sel[p]) = Get(sel[q]) /\ p <= q)
         IN <<m>> \o sort_by_key(S \ {m}, sel)

\* mutant of sort_players_by_card_value: the players in list order
sort_players_by_card_value_unsorted(sel) ==
    LET S == {p \in Players : sel[p] # None} IN
    [i \in 1..Cardinality(S) |->
        CHOOSE p \in S : Cardinality({q \in S : q < p}) = i - 1]

sort_players_by_card_value(sel) == sort_by_key({p \in Players : sel[p] # None}, sel)

\* ------------------------------------------------------------------ Player
\* deal_cards: extend the hand, then sort it
Player_deal_cards(hand_p, cards) == SortCards(hand_p \o cards)

\* mutant of play_selected_card: plays the first card of the hand
play_selected_card_first(hand_p, selected_p) ==
    [card |-> Get(selected_p), hand |-> Tail(hand_p), selected |-> None]

\* mutant of play_selected_card: the selection stays pending
play_selected_card_keep(hand_p, selected_p) ==
    [card |-> Get(selected_p), hand |-> RemoveFirst(hand_p, Get(selected_p)),
     selected |-> selected_p]

\* play_selected_card: the selected card leaves the hand and the selection is cleared
play_selected_card(hand_p, selected_p) ==
    [card |-> Get(selected_p), hand |-> RemoveFirst(hand_p, Get(selected_p)),
     selected |-> None]

\* -------------------------------------------------------------------- Game
\* a game g is the record of the fields of Game, GameState and the Players
NewGame ==
    [round_number  |-> 0,
     turn_number   |-> 0,
     rows          |-> None,
     deck          |-> <<>>,
     hand          |-> [p \in Players |-> <<>>],
     selected      |-> [p \in Players |-> None],
     total_score   |-> [p \in Players |-> 0],
     round_score   |-> [p \in Players |-> 0],
     forced        |-> [p \in Players |-> None],
     turn_results  |-> <<>>,
     is_game_over  |-> FALSE,
     winner        |-> None]

\* the second loop of start_new_round: each player in turn is dealt HandSize cards
RECURSIVE deal_to_players(_, _, _)
deal_to_players(hand, d, p) ==
    IF p > NumPlayers THEN [hand |-> hand, deck |-> d]
    ELSE LET dealt == deal_cards(d, HandSize) IN
         deal_to_players([hand EXCEPT ![p] = Player_deal_cards(@, dealt.cards)],
                         dealt.deck, p + 1)

\* mutant of start_new_round: the turn number is carried over
start_new_round_turn(g, shuffled) ==
    LET starting == deal_cards(shuffled, STARTING_ROWS)
        dealt    == deal_to_players(g.hand, starting.deck, 1)
    IN [g EXCEPT !.round_number = @ + 1,
                 !.turn_results = <<>>,
                 !.round_score  = [p \in Players |-> 0],
                 !.selected     = [p \in Players |-> None],
                 !.rows         = Table(SortCards(starting.cards)),
                 !.hand         = dealt.hand,
                 !.deck         = dealt.deck]

\* mutant of start_new_round: the total scores are reset with the round scores
start_new_round_fresh(g, shuffled) ==
    LET starting == deal_cards(shuffled, STARTING_ROWS)
        dealt    == deal_to_players(g.hand, starting.deck, 1)
    IN [g EXCEPT !.round_number = @ + 1,
                 !.turn_number  = 0,
                 !.turn_results = <<>>,
                 !.round_score  = [p \in Players |-> 0],
                 !.total_score  = [p \in Players |-> 0],
                 !.selected     = [p \in Players |-> None],
                 !.rows         = Table(SortCards(starting.cards)),
                 !.hand         = dealt.hand,
                 !.deck         = dealt.deck]

\* start_new_round; shuffled is the deck as left by Deck.reset().  A deck holds
\* DeckSize cards, enough for the rows and every hand, so no deal raises.
start_new_round(g, shuffled) ==
    LET starting == deal_cards(shuffled, STARTING_ROWS)
        dealt    == deal_to_players(g.hand, starting.deck, 1)
    IN [g EXCEPT !.round_number = @ + 1,
                 !.turn_number  = 0,
                 !.turn_results = <<>>,
                 !.round_score  = [p \in Players |-> 0],
                 !.selected     = [p \in Players |-> None],
                 !.rows         = Table(SortCards(starting.cards)),
                 !.hand         = dealt.hand,
                 !.deck         = dealt.deck]

\* mutant of select_card_for_player: a pending selection is replaced
select_card_for_player_replace(g, player, card) ==
    IF card \notin SeqToSet(g.hand[player])
    THEN [raised |-> TRUE, g |-> g]
    ELSE [raised |-> FALSE, g |-> [g EXCEPT !.selected[player] = Some(card)]]

\* select_card_for_player: validate_card_selection, then Player.select_card;
\* both raise for a card that is not in the hand, then for a pending selection
select_card_for_player(g, player, card) ==
    IF card \notin SeqToSet(g.hand[player])
    THEN [raised |-> TRUE, g |-> g]
    ELSE IF g.selected[player] # None
    THEN [raised |-> TRUE, g |-> g]
    ELSE [raised |-> FALSE, g |-> [g EXCEPT !.selected[player] = Some(card)]]

\* a game of player_count players just constructed
NewGameOf(player_count, shuffled) ==
    [NewGame EXCEPT !.deck        = shuffled,
                    !.hand        = [p \in 1..player_count |-> <<>>],
                    !.selected    = [p \in 1..player_count |-> None],
                    !.total_score = [p \in 1..player_count |-> 0],
                    !.round_score = [p \in 1..player_count |-> 0],
                    !.forced      = [p \in 1..player_count |-> None]]

\* the second loop of start_new_round for the players p, p + 1, ... of hand,
\* each dealt per_player cards; cards lists what was dealt, in order
RECURSIVE deal_hands(_, _, _, _)
deal_hands(hand, d, p, per_player) ==
    IF p > Len(hand) THEN [raised |-> FALSE, hand |-> hand, deck |-> d, cards |-> <<>>]
    ELSE LET dealt == deal_cards(d, per_player) IN
         IF dealt.raised
         THEN [raised |-> TRUE, hand |-> hand, deck |-> d, cards |-> <<>>]
         ELSE LET rest == deal_hands([hand EXCEPT ![p] = Player_deal_cards(@, dealt.cards)],
                                     dealt.deck, p + 1, per_player)
              IN [rest EXCEPT !.cards = dealt.cards \o @]

\* start_new_round of a game of any number of players; shuffled is the deck
\* as left by Deck.reset(), dealt lists the cards dealt by the call
start_new_round_of(g, shuffled, per_player) ==
    LET cleared == [g EXCEPT !.round_number = @ + 1,
                             !.turn_number  = 0,
                             !.turn_results = <<>>,
                             !.round_score  = [p \in DOMAIN g.hand |-> 0],
                             !.selected     = [p \in DOMAIN g.hand |-> None],
                             !.deck         = shuffled]
        starting == deal_cards(shuffled, STARTING_ROWS)
        dealt    == deal_hands(g.hand, starting.deck, 1, per_player)
    IN IF starting.raised
       THEN [raised |-> TRUE, g |-> cleared, dealt |-> <<>>]
       ELSE [raised |-> dealt.raised,
             g |-> [cleared EXCEPT !.rows = Table(SortCards(starting.cards)),
                                   !.hand = dealt.hand,
                                   !.deck = dealt.deck],
             dealt |-> starting.cards \o dealt.cards]

\* ------------------------------------------------------- Game construction
\* a name is the list of the code points of its characters; str.strip()
\* removes the ASCII whitespace at both ends
Whitespace == {9, 10, 11, 12, 13, 32}

RECURSIVE lstrip(_)
lstrip(name) ==
    IF name # <<>> /\ Head(name) \in Whitespace THEN lstrip(Tail(name)) ELSE name

strip(name) == Reverse(lstrip(Reverse(lstrip(name))))

\* validate_player_count: TRUE when it raises
validate_player_count(count) == ~(MIN_PLAYERS <= count /\ count <= MAX_PLAYERS)

\* mutant of validate_player_names: uniqueness is judged on the names as given
validate_player_names_raw(names) ==
    IF names = <<>> THEN TRUE
    ELSE LET cleaned_names == [i \in 1..Len(names) |-> strip(names[i])] IN
         IF \E i \in 1..Len(names) : cleaned_names[i] = <<>> THEN TRUE
         ELSE Cardinality(SeqToSet(names)) # Len(names)

\* validate_player_names: TRUE when it raises
validate_player_names(names) ==
    IF names = <<>> THEN TRUE
    ELSE LET cleaned_names == [i \in 1..Len(names) |-> strip(names[i])] IN
         IF \E i \in 1..Len(names) : cleaned_names[i] = <<>> THEN TRUE
         ELSE Cardinality(SeqToSet(cleaned_names)) # Len(cleaned_names)

\* Player(name): raises for a name that is empty once stripped
Player_init(name) ==
    IF strip(name) = <<>> THEN [raised |-> TRUE, name |-> <<>>]
    ELSE [raised |-> FALSE, name |-> strip(name)]

\* Game(player_names): the validations, then the players, the shuffled deck,
\* no table and a GameState; names lists Player.name of the players created
Game_init(player_names, shuffled) ==
    IF validate_player_count(Len(player_names)) THEN [raised |-> TRUE]
    ELSE IF validate_player_names(player_names) THEN [raised |-> TRUE]
    ELSE IF \E i \in 1..Len(player_names) : Player_init(player_names[i]).raised
    THEN [raised |-> TRUE]
    ELSE [raised |-> FALSE,
          g |-> NewGameOf(Len(player_names), shuffled),
          names |-> [i \in 1..Len(player_names) |-> Player_init(player_names[i]).name]]

\* mutant of _get_row_choice_for_player: the number of rows is returned
_get_row_choice_for_player_len(choices) == Len(choices)

_get_row_choice_for_player(choices) ==
    CHOOSE c \in SeqToSet(choices) : \A d \in SeqToSet(choices) : c <= d

\* mutant of _process_forced_wipe: the registered override is deleted unused
_process_forced_wipe_default(rows, forced_p, card) ==
    LET placed == Table_place_card(rows, card,
                                   Some(_get_row_choice_for_player(get_row_choices)))
    IN [raised |-> placed.raised, rows |-> placed.rows,
        row_index |-> placed.row_index, wiped |-> placed.wiped, forced |-> None]

\* _process_forced_wipe: the registered override is used and deleted, else the default
_process_forced_wipe(rows, forced_p, card) ==
    LET row_choice == IF forced_p # None THEN Get(forced_p)
                      ELSE _get_row_choice_for_player(get_row_choices)
        placed == Table_place_card(rows, card, Some(row_choice))
    IN [raised |-> placed.raised, rows |-> placed.rows,
        row_index |-> placed.row_index, wiped |-> placed.wiped, forced |-> None]

\* the table decision for one played card, on the table as it is now
place_played_card(rows, forced_p, played_card) ==
    IF must_wipe_row(rows, played_card)
    THEN _process_forced_wipe(rows, forced_p, played_card)
    ELSE LET placed == Table_place_card(rows, played_card, None) IN
         [raised |-> placed.raised, rows |-> placed.rows,
          row_index |-> placed.row_index, wiped |-> placed.wiped, forced |-> forced_p]

\* mutant of penalty_for: only the first wiped card counts
penalty_for_first(wiped) ==
    IF wiped # None /\ Get(wiped) # <<>> THEN points(Get(wiped)[1]) ELSE 0

penalty_for(wiped) ==
    IF wiped # None /\ Get(wiped) # <<>> THEN calculate_penalty_points(Get(wiped)) ELSE 0

\* one iteration of the loop of process_turn; when the placement raises, the
\* card has left the hand and nothing else of the iteration has happened
resolve_player(g, player) ==
    LET played == play_selected_card(g.hand[player], g.selected[player])
        played_card == played.card
        out == place_played_card(g.rows, g.forced[player], played_card)
        penalty_points == penalty_for(out.wiped)
    IN IF out.raised
       THEN [raised |-> TRUE,
             g |-> [g EXCEPT !.hand[player]     = played.hand,
                             !.selected[player] = played.selected,
                             !.forced[player]   = out.forced]]
       ELSE [raised |-> FALSE,
             g |-> [g EXCEPT !.hand[player]        = played.hand,
                             !.selected[player]    = played.selected,
                             !.rows                = out.rows,
                             !.forced[player]      = out.forced,
                             !.round_score[player] = @ + penalty_points,
                             !.total_score[player] = @ + penalty_points,
                             !.turn_results        = Append(@, [player |-> player,
                                                               card |-> played_card,
                                                               row_index |-> Get(out.row_index),
                                                               wiped |-> out.wiped])]]

\* mutant of resolve_players: every decision is taken on the table of the turn start
RECURSIVE resolve_players_on(_, _, _)
resolve_players_on(g, sorted_players, start_rows) ==
    IF sorted_players = <<>> THEN g
    ELSE LET player == Head(sorted_players)
             played == play_selected_card(g.hand[player], g.selected[player])
             out == place_played_card(start_rows, g.forced[player], played.card)
             penalty_points == penalty_for(out.wiped)
             g1 == [g EXCEPT
                      !.hand[player]        = played.hand,
                      !.selected[player]    = played.selected,
                      !.rows[Get(out.row_index) + 1] =
                            IF out.wiped # None THEN <<played.card>>
                            ELSE Append(@, played.card),
                      !.forced[player]      = out.forced,
                      !.round_score[player] = @ + penalty_points,
                      !.total_score[player] = @ + penalty_points,
                      !.turn_results        = Append(@, [player |-> player,
                                                        card |-> played.card,
                                                        row_index |-> Get(out.row_index),
                                                        wiped |-> out.wiped])]
         IN resolve_players_on(g1, Tail(sorted_players), start_rows)

resolve_players_stale(g, sorted_players) ==
    [raised |-> FALSE, g |-> resolve_players_on(g, sorted_players, g.rows)]

\* the loop of process_turn: it ends with the first iteration that raises
RECURSIVE resolve_players(_, _)
resolve_players(g, sorted_players) ==
    IF sorted_players = <<>> THEN [raised |-> FALSE, g |-> g]
    ELSE LET r == resolve_player(g, Head(sorted_players)) IN
         IF r.raised THEN r ELSE resolve_players(r.g, Tail(sorted_players))

\* mutant of process_turn: the selections are not checked
process_turn_unchecked(g) ==
    resolve_players([g EXCEPT !.turn_number = @ + 1, !.turn_results = <<>>],
                    sort_players_by_card_value(g.selected))

\* mutant of process_turn: the turn number is raised before the selections are checked
process_turn_counted(g) ==
    IF ~all_players_selected(g.selected)
    THEN [raised |-> TRUE, g |-> [g EXCEPT !.turn_number = @ + 1]]
    ELSE resolve_players([g EXCEPT !.turn_number = @ + 1, !.turn_results = <<>>],
                         sort_players_by_card_value(g.selected))

process_turn(g) ==
    IF ~all_players_selected(g.selected)
    THEN [raised |-> TRUE, g |-> g]
    ELSE resolve_players([g EXCEPT !.turn_number = @ + 1, !.turn_results = <<>>],
                         sort_players_by_card_value(g.selected))

\* mutant of add_penalty_points: negative points are accepted
add_penalty_points_unchecked(g, player, penalty) ==
    [raised |-> FALSE,
     g |-> [g EXCEPT !.round_score[player] = @ + penalty,
                     !.total_score[player] = @ + penalty]]

\* mutant of preview_players: the preview is not updated after a forced wipe
RECURSIVE preview_players_stale(_, _, _, _)
preview_players_stale(temp_table, sorted_players, sel, needing_choice) ==
    IF sorted_players = <<>>
    THEN [needing_choice |-> needing_choice, temp_table |-> temp_table]
    ELSE LET player == Head(sorted_players)
             card == Get(sel[player])
         IN IF must_wipe_row(temp_table, card)
            THEN preview_players_stale(temp_table, Tail(sorted_players), sel,
                                       Append(needing_choice, <<player, card>>))
            ELSE preview_players_stale(Table_place_card(temp_table, card, None).rows,
                                       Tail(sorted_players), sel, needing_choice)

\* the loop of get_players_needing_row_choice over the sorted players, all of
\* which have a selection: a card no row of the preview accepts is recorded and
\* becomes row 0 of the preview, any other card is placed on the preview
RECURSIVE preview_players(_, _, _, _)
preview_players(temp_table, sorted_players, sel, needing_choice) ==
    IF sorted_players = <<>>
    THEN [needing_choice |-> needing_choice, temp_table |-> temp_table]
    ELSE LET player == Head(sorted_players)
             card == Get(sel[player])
         IN IF must_wipe_row(temp_table, card)
            THEN preview_players([temp_table EXCEPT ![1] = <<card>>],
                                 Tail(sorted_players), sel,
                                 Append(needing_choice, <<player, card>>))
            ELSE preview_players(Table_place_card(temp_table, card, None).rows,
                                 Tail(sorted_players), sel, needing_choice)

\* the preview table: a new Table of the first cards of the live rows, to
\* whose rows the other cards are appended
preview_table(rows) ==
    [i \in 1..NUM_ROWS |-> Table([j \in 1..NUM_ROWS |-> rows[j][1]])[i] \o Tail(rows[i])]

\* mutant of get_players_needing_row_choice: the preview is made on the live rows
get_players_needing_row_choice_live(g) ==
    LET p == preview_players(preview_table(g.rows),
                             sort_players_by_card_value(g.selected), g.selected, <<>>)
    IN [returned |-> p.needing_choice, rows |-> p.temp_table]

\* get_players_needing_row_choice: the returned list, and the live rows after
\* the call (Table.rows and Row.cards hand out copies, the preview has rows of
\* its own)
get_players_needing_row_choice(g) ==
    LET p == preview_players(preview_table(g.rows),
                             sort_players_by_card_value(g.selected), g.selected, <<>>)
    IN [returned |-> p.needing_choice, rows |-> g.rows]

\* Player.add_penalty_points called on g's player
add_penalty_points(g, player, penalty) ==
    IF penalty < 0
    THEN [raised |-> TRUE, g |-> g]
    ELSE [raised |-> FALSE,
          g |-> [g EXCEPT !.round_score[player] = @ + penalty,
                          !.total_score[player] = @ + penalty]]

\* mutant of check_game_end: the game is declared over whatever the scores
check_game_end_always(g) ==
    [returned |-> TRUE,
     g |-> [g EXCEPT !.is_game_over = TRUE,
                     !.winner = Some(find_winner(g.total_score))]]

\* mutant of check_game_end: the game ends at GAME_END_SCORE points
check_game_end_at(g) ==
    IF \E p \in Players : g.total_score[p] >= GAME_END_SCORE
    THEN [returned |-> TRUE,
          g |-> [g EXCEPT !.is_game_over = TRUE,
                          !.winner = Some(find_winner(g.total_score))]]
    ELSE [returned |-> FALSE, g |-> g]

\* mutant of check_game_end: the over-flag is set on every call
check_game_end_flag(g) ==
    IF GameRules_is_game_over(g.total_score)
    THEN [returned |-> TRUE,
          g |-> [g EXCEPT !.is_game_over = TRUE,
                          !.winner = Some(find_winner(g.total_score))]]
    ELSE [returned |-> FALSE, g |-> [g EXCEPT !.is_game_over = TRUE]]

check_game_end(g) ==
    IF GameRules_is_game_over(g.total_score)
    THEN [returned |-> TRUE,
          g |-> [g EXCEPT !.is_game_over = TRUE,
                          !.winner = Some(find_winner(g.total_score))]]
    ELSE [returned |-> FALSE, g |-> g]

\* ------------------------------------------------------------------- state
VARIABLES
    round_number,     \* GameState.round_number
    turn_number,      \* GameState.turn_number
    rows,             \* Game._table: None, or the card lists of the 4 rows
    deck,             \* Deck._cards
    hand,             \* Player._hand of each player
    selected,         \* Player._selected_card of each player
    total_score,      \* Player._total_score
    round_score,      \* Player._round_score
    forced,           \* the attribute _forced_row_choice of each player, None when absent
    turn_results,     \* Game._turn_results
    op,               \* the last call that changed the state or was process_turn
    forced_calls,     \* number of calls of set_forced_row_choice made so far
    table_ops,        \* number of direct Table.place_card calls made so far
    row,              \* Row._cards of a Row used on its own, None when there is none
    is_game_over,     \* GameState.is_game_over
    winner            \* GameState.winner: None, or the player it refers to

vars == <<round_number, turn_number, rows, deck, hand, selected, total_score,
          round_score, forced, turn_results, op, forced_calls, table_ops, row,
          is_game_over, winner>>

Game ==
    [round_number  |-> round_number,
     turn_number   |-> turn_number,
     rows          |-> rows,
     deck          |-> deck,
     hand          |-> hand,
     selected      |-> selected,
     total_score   |-> total_score,
     round_score   |-> round_score,
     forced        |-> forced,
     turn_results  |-> turn_results,
     is_game_over  |-> is_game_over,
     winner        |-> winner]

SetGame(g) ==
    /\ round_number' = g.round_number
    /\ turn_number'  = g.turn_number
    /\ rows'         = g.rows
    /\ deck'         = g.deck
    /\ hand'         = g.hand
    /\ selected'     = g.selected
    /\ total_score'  = g.total_score
    /\ round_score'  = g.round_score
    /\ forced'       = g.forced
    /\ turn_results' = g.turn_results
    /\ is_game_over' = g.is_game_over
    /\ winner'       = g.winner

IsGame(g) ==
    /\ round_number = g.round_number
    /\ turn_number  = g.turn_number
    /\ rows         = g.rows
    /\ deck         = g.deck
    /\ hand         = g.hand
    /\ selected     = g.selected
    /\ total_score  = g.total_score
    /\ round_score  = g.round_score
    /\ forced       = g.forced
    /\ turn_results = g.turn_results
    /\ is_game_over = g.is_game_over
    /\ winner       = g.winner

Op(name, raised) ==
    [name |-> name, raised |-> raised, card |-> 0, row_index |-> None, wiped |-> None,
     forced_row |-> None, returned |-> None, player |-> 0, count |-> 0,
     names |-> <<>>]

TableOp(name, raised, card, row_index, wiped) ==
    [name |-> name, raised |-> raised, card |-> card, row_index |-> row_index,
     wiped |-> wiped, forced_row |-> None, returned |-> None, player |-> 0,
     count |-> 0, names |-> <<>>]

\* ------------------------------------------------------------ deck orders
\* The deck order from which start_new_round deals the given seeds and hands:
\* deal_card pops the last card, the seeds go first, then each player's hand.
DeckDealing(seeds, hands) ==
    Reverse(seeds \o [i \in 1..(NumPlayers * HandSize) |->
                         hands[((i - 1) \div HandSize) + 1][((i - 1) % HandSize) + 1]])

\* Outcomes of Deck.reset() followed by shuffle() over the cards 1..DeckSize.
\* The four lowest cards become the seeds, the hands are ascending blocks.
Descending == [i \in 1..DeckSize |-> DeckSize + 1 - i]

\* The four highest cards become the seeds, the other cards are dealt one at
\* a time: every turn has a player whose card no row accepts.
RiffleLow ==
    DeckDealing([i \in 1..STARTING_ROWS |-> DeckSize - STARTING_ROWS + i],
                [p \in Players |-> [k \in 1..HandSize |-> p + NumPlayers * (k - 1)]])

\* The deck order of the end-to-end scenario: rows seeded 10, 20, 30, 40,
\* player 1 (A) holds 15, player 2 (B) holds 25, player 3 (C) holds 5, and each
\* further card of a hand is 30 above the previous one.
E2EFirst == <<15, 25, 5>>

E2EDeck ==
    DeckDealing(<<10, 20, 30, 40>>,
                [p \in Players |-> [k \in 1..HandSize |-> E2EFirst[p] + 30 * (k - 1)]])

Shuffles == {Descending, RiffleLow, E2EDeck}

\* ------------------------------------------------------------------- Init
\* a game just constructed, whose first round has been started
Init ==
    /\ \E shuffled \in Shuffles : IsGame(start_new_round(NewGame, shuffled))
    /\ op = Op("start_new_round", FALSE)
    /\ forced_calls = 0
    /\ table_ops = 0
    /\ row = None

\* ---------------------------------------------------------------- actions
\* Game.select_card_for_player(player, card); with a card that is not in the
\* hand, or a selection already pending, it raises before any assignment
SelectCard(player, card) ==
    /\ card \in SeqToSet(hand[player])
    /\ selected[player] = None
    /\ selected' = [selected EXCEPT ![player] = Some(card)]
    /\ op' = Op("select_card_for_player", FALSE)
    /\ UNCHANGED <<round_number, turn_number, rows, deck, hand, total_score,
                   round_score, forced, turn_results, forced_calls, table_ops, row,
                   is_game_over, winner>>

\* Game.set_forced_row_choice(player, row_index); with an index outside
\* 0..STARTING_ROWS-1 it raises before the assignment
SetForcedRowChoice(player, row_index) ==
    /\ forced_calls < MaxForcedChoices
    /\ 0 <= row_index /\ row_index < STARTING_ROWS
    /\ forced_calls' = forced_calls + 1
    /\ forced' = [forced EXCEPT ![player] = Some(row_index)]
    /\ op' = Op("set_forced_row_choice", FALSE)
    /\ UNCHANGED <<round_number, turn_number, rows, deck, hand, selected,
                   total_score, round_score, turn_results, table_ops, row,
                   is_game_over, winner>>

\* Game.clear_all_selections()
ClearAllSelections ==
    /\ selected' = [p \in Players |-> None]
    /\ op' = Op("clear_all_selections", FALSE)
    /\ UNCHANGED <<round_number, turn_number, rows, deck, hand, total_score,
                   round_score, forced, turn_results, forced_calls, table_ops, row,
                   is_game_over, winner>>

\* Game.process_turn()
ProcessTurn ==
    LET r == process_turn(Game) IN
    /\ SetGame(r.g)
    /\ op' = Op("process_turn", r.raised)
    /\ UNCHANGED <<forced_calls, table_ops, row>>

CardsInHands == UNION {SeqToSet(hand[p]) : p \in Players}

Next ==
    \/ \E p \in Players : \E c \in CardsInHands : SelectCard(p, c)
    \/ \E p \in Players : \E r \in -1..NUM_ROWS : SetForcedRowChoice(p, r)
    \/ ClearAllSelections
    \/ ProcessTurn

Spec == Init /\ [][Next]_vars

\* ------------------------------------------------------- rounds and game end
\* A game played over several rounds: every player selects the lowest card of
\* the hand, a round may be started at any time, and penalty points are also
\* given to a player directly, as tests/test_game.py does.
InitRounds ==
    /\ IsGame(start_new_round(NewGame, RiffleLow))
    /\ op = Op("start_new_round", FALSE)
    /\ forced_calls = 0
    /\ table_ops = 0
    /\ row = None

\* Game.start_new_round(); shuffled is the deck as left by Deck.reset()
StartNewRound(shuffled) ==
    /\ round_number < MaxRounds
    /\ SetGame(start_new_round(Game, shuffled))
    /\ op' = Op("start_new_round", FALSE)
    /\ UNCHANGED <<forced_calls, table_ops, row>>

\* players[player].add_penalty_points(penalty), called while the game is not
\* over; once it is over the scores only change through process_turn
PenaltyInputs == {-1, GAME_END_SCORE, GAME_END_SCORE + 1}

AddPenaltyPoints(player, penalty) ==
    LET r == add_penalty_points(Game, player, penalty) IN
    /\ ~is_game_over
    /\ total_score[player] + penalty <= MaxTotal
    /\ SetGame(r.g)
    /\ op' = Op("add_penalty_points", r.raised)
    /\ UNCHANGED <<forced_calls, table_ops, row>>

\* Game.check_game_end()
CheckGameEnd ==
    LET r == check_game_end(Game) IN
    /\ SetGame(r.g)
    /\ op' = [Op("check_game_end", FALSE) EXCEPT !.returned = Some(r.returned)]
    /\ UNCHANGED <<forced_calls, table_ops, row>>

NextRounds ==
    \/ StartNewRound(RiffleLow)
    \/ \E p \in Players : hand[p] # <<>> /\ SelectCard(p, hand[p][1])
    \/ ProcessTurn
    \/ \E p \in Players : \E penalty \in PenaltyInputs : AddPenaltyPoints(p, penalty)
    \/ CheckGameEnd

SpecRounds == InitRounds /\ [][NextRounds]_vars

\* ------------------------------------------------------------- selections
\* Game.select_card_for_player(player, card) called in any state of the
\* players, with the lowest or the highest card of the hand or with a card
\* that is in no hand (the highest seed): the call that raises is a step too
SelectInputs(player) ==
    {DeckSize} \cup (IF hand[player] = <<>> THEN {}
                     ELSE {hand[player][1], hand[player][Len(hand[player])]})

SelectCardFor(player, card) ==
    LET r == select_card_for_player(Game, player, card) IN
    /\ SetGame(r.g)
    /\ op' = [Op("select_card_for_player", r.raised) EXCEPT !.player = player,
                                                            !.card = card]
    /\ UNCHANGED <<forced_calls, table_ops, row>>

\* Game.get_players_needing_row_choice()
GetPlayersNeedingRowChoice ==
    LET r == get_players_needing_row_choice(Game) IN
    /\ SetGame([Game EXCEPT !.rows = r.rows])
    /\ op' = [Op("get_players_needing_row_choice", FALSE) EXCEPT
                 !.returned = Some(r.returned)]
    /\ UNCHANGED <<forced_calls, table_ops, row>>

NextSelect ==
    \/ \E p \in Players : \E c \in SelectInputs(p) : SelectCardFor(p, c)
    \/ ClearAllSelections
    \/ GetPlayersNeedingRowChoice
    \/ ProcessTurn

SpecSelect == Init /\ [][NextSelect]_vars

\* Rounds started at any time, on top of whatever the hands still hold, with
\* selections of the lowest card of the hand, or of the highest one by the
\* first player
NextPending ==
    \/ StartNewRound(RiffleLow)
    \/ \E p \in Players : hand[p] # <<>> /\ SelectCard(p, hand[p][1])
    \/ hand[1] # <<>> /\ SelectCard(1, hand[1][Len(hand[1])])
    \/ ClearAllSelections
    \/ ProcessTurn

SpecPending == InitRounds /\ [][NextPending]_vars

\* ------------------------------------------------------- direct Deck calls
\* Deck.reset() before the shuffle: the cards 1..TOTAL_CARDS in order
FullDeck == [i \in 1..TOTAL_CARDS |-> i]

\* Outcomes of shuffle() on the full deck: untouched, reversed, cut in the
\* middle, and the odd cards followed by the even ones
FullShuffles ==
    {FullDeck,
     Reverse(FullDeck),
     [i \in 1..TOTAL_CARDS |-> ((i - 1 + TOTAL_CARDS \div 2) % TOTAL_CARDS) + 1],
     [i \in 1..TOTAL_CARDS |-> IF i <= TOTAL_CARDS \div 2 THEN 2 * i - 1
                                ELSE 2 * (i - TOTAL_CARDS \div 2)]}

\* the Deck of a Game just constructed
InitDeck ==
    /\ \E shuffled \in FullShuffles : IsGame([NewGame EXCEPT !.deck = shuffled])
    /\ op = Op("Deck", FALSE)
    /\ forced_calls = 0
    /\ table_ops = 0
    /\ row = None

gameVarsButDeck ==
    <<round_number, turn_number, rows, hand, selected, total_score, round_score,
      forced, turn_results, is_game_over, winner, forced_calls, table_ops, row>>

\* Deck.deal_card()
DeckDealCard ==
    LET r == deal_card(deck) IN
    /\ deck' = r.deck
    /\ op' = [Op("Deck.deal_card", r.raised) EXCEPT !.returned = r.card]
    /\ UNCHANGED gameVarsButDeck

\* Deck.deal_cards(count), with the counts of tests/test_card.py and the
\* counts around them
DealCounts == {0, STARTING_ROWS, STARTING_ROWS + 1, 10, TOTAL_CARDS - STARTING_ROWS,
               TOTAL_CARDS, TOTAL_CARDS + 1}

DeckDealCards(count) ==
    LET r == deal_cards(deck, count) IN
    /\ deck' = r.deck
    /\ op' = [Op("Deck.deal_cards", r.raised) EXCEPT !.count = count,
                                                     !.returned = Some(r.cards)]
    /\ UNCHANGED gameVarsButDeck

NextDeck ==
    \/ DeckDealCard
    \/ \E count \in DealCounts : DeckDealCards(count)

SpecDeck == InitDeck /\ [][NextDeck]_vars

\* ------------------------------------------------ rounds of 3 to 10 players
InitDeal ==
    /\ \E player_count \in MIN_PLAYERS..MAX_PLAYERS : \E shuffled \in FullShuffles :
          IsGame(NewGameOf(player_count, shuffled))
    /\ op = Op("Game", FALSE)
    /\ forced_calls = 0
    /\ table_ops = 0
    /\ row = None

\* Game.start_new_round() with hands of CARDS_PER_PLAYER_FULL cards
StartNewRoundOf(shuffled) ==
    LET r == start_new_round_of(Game, shuffled, CARDS_PER_PLAYER_FULL) IN
    /\ round_number < MaxRounds
    /\ SetGame(r.g)
    /\ op' = [Op("start_new_round", r.raised) EXCEPT !.count = Len(hand),
                                                     !.returned = Some(r.dealt)]
    /\ UNCHANGED <<forced_calls, table_ops, row>>

NextDeal == \E shuffled \in FullShuffles : StartNewRoundOf(shuffled)

SpecDeal == InitDeal /\ [][NextDeal]_vars

\* ------------------------------------------------------------ single cards
\* Card(value) for every value the constructor accepts
InitCard ==
    /\ IsGame(NewGame)
    /\ \E value \in 1..TOTAL_CARDS : op = [Op("Card", FALSE) EXCEPT !.card = value]
    /\ forced_calls = 0
    /\ table_ops = 0
    /\ row = None

\* Card.points of the card constructed
CardPoints ==
    /\ op.name = "Card"
    /\ op' = [Op("Card.points", FALSE) EXCEPT !.card = op.card,
                                              !.returned = Some(points(op.card))]
    /\ UNCHANGED <<gameVarsButDeck, deck>>

NextCard == CardPoints

SpecCard == InitCard /\ [][NextCard]_vars

\* ------------------------------------------------------ Game construction
\* the names "P1", "P2", ... of tests/test_game.py
BaseName(k) ==
    IF k < 10 THEN <<80, 48 + k>> ELSE <<80, 48 + (k \div 10), 48 + (k % 10)>>

\* other names: "", " ", tab and space, " P1", "P1 ", "p1", "P 1", "A"
NameVariants ==
    {<<>>, <<32>>, <<9, 32>>, <<32, 80, 49>>, <<80, 49, 32>>, <<112, 49>>,
     <<80, 32, 49>>, <<65>>}

\* lists of 0 to MAX_PLAYERS + 1 names "P1", "P2", ..., in which at most one
\* name is replaced by one of the other names
NameLists ==
    LET base(n) == [i \in 1..n |-> BaseName(i)] IN
    {base(n) : n \in 0..(MAX_PLAYERS + 1)}
        \cup UNION {{[base(n) EXCEPT ![i] = v] : i \in 1..n, v \in NameVariants} :
                       n \in 1..(MAX_PLAYERS + 1)}

\* no Game exists yet; the caller holds a list of names
NoGame == NewGameOf(0, <<>>)

InitNames ==
    /\ IsGame(NoGame)
    /\ \E player_names \in NameLists : op = [Op("names", FALSE) EXCEPT !.names = player_names]
    /\ forced_calls = 0
    /\ table_ops = 0
    /\ row = None

\* Game(player_names), with the list the caller holds; when it raises there
\* is no Game
GameInit(shuffled) ==
    LET r == Game_init(op.names, shuffled) IN
    /\ op.name = "names"
    /\ IF r.raised
       THEN /\ UNCHANGED <<gameVarsButDeck, deck>>
            /\ op' = [Op("Game", TRUE) EXCEPT !.names = op.names]
       ELSE /\ SetGame(r.g)
            /\ op' = [Op("Game", FALSE) EXCEPT !.names = op.names,
                                               !.returned = Some(r.names)]
            /\ UNCHANGED <<forced_calls, table_ops, row>>

NextNames == GameInit(FullDeck)

SpecNames == InitNames /\ [][NextNames]_vars

\* ---------------------------------------------------- rounds played out
\* A game from its construction on, in which a round is only started when
\* every hand is empty, as GameController._play_round does.
InitPlay ==
    /\ IsGame(NewGame)
    /\ op = Op("Game", FALSE)
    /\ forced_calls = 0
    /\ table_ops = 0
    /\ row = None

StartRound(shuffled) ==
    /\ is_round_over(hand)
    /\ StartNewRound(shuffled)

NextPlay ==
    \/ \E shuffled \in Shuffles : StartRound(shuffled)
    \/ \E p \in Players : \E c \in SelectInputs(p) \ {DeckSize} : SelectCard(p, c)
    \/ ProcessTurn

SpecPlay == InitPlay /\ [][NextPlay]_vars

\* Game operations called in any order on a game just constructed: rounds
\* started at any time, select_card_for_player with the lowest card of the
\* hand or with a card that is in no hand, process_turn whether or not the
\* selections are complete; the calls that raise are steps too
GuardInputs(player) ==
    {DeckSize} \cup (IF hand[player] = <<>> THEN {} ELSE {hand[player][1]})

NextGuard ==
    \/ \E shuffled \in Shuffles : StartNewRound(shuffled)
    \/ \E p \in Players : \E c \in GuardInputs(p) : SelectCardFor(p, c)
    \/ ProcessTurn

SpecGuard == InitPlay /\ [][NextGuard]_vars

\* ------------------------------------------------------- the game loop
\* GameController._play_game with 3 players, hands of CARDS_PER_PLAYER_FULL
\* cards and the deck of TOTAL_CARDS cards: a round is started, the players
\* select in turn and process_turn is called until the hands are empty, then
\* check_game_end is called; the loop ends when the game is over. The position
\* in the loop is read from the last call and the state of the game.
InitLoop ==
    /\ \E shuffled \in FullShuffles : IsGame(NewGameOf(NumPlayers, shuffled))
    /\ op = Op("Game", FALSE)
    /\ forced_calls = 0
    /\ table_ops = 0
    /\ row = None

\* _play_round: start_new_round()
LoopStartRound(shuffled) ==
    LET r == start_new_round_of(Game, shuffled, CARDS_PER_PLAYER_FULL) IN
    /\ ~is_game_over
    /\ op.name = "Game" \/ op.name = "check_game_end"
    /\ SetGame(r.g)
    /\ op' = [Op("start_new_round", r.raised) EXCEPT !.count = Len(hand),
                                                     !.returned = Some(r.dealt)]
    /\ UNCHANGED <<forced_calls, table_ops, row>>

\* the cards a player may select: the lowest or the highest of the hand, in
\* turn; the first player opens the round with either
LoopCards(player) ==
    IF player = 1 /\ turn_number = 0
    THEN {hand[player][1], hand[player][Len(hand[player])]}
    ELSE IF (player + turn_number) % 2 = 0 THEN {hand[player][1]}
    ELSE {hand[player][Len(hand[player])]}

\* _collect_card_selections: the players select in the order of the list
LoopSelect(player) ==
    /\ rows # None
    /\ op.name # "check_game_end"
    /\ ~is_round_over(hand)
    /\ \A q \in Players : q < player => selected[q] # None
    /\ \E card \in LoopCards(player) : SelectCard(player, card)

\* _play_turn: process_turn() once the selections are collected
LoopProcessTurn ==
    /\ all_players_selected(selected)
    /\ ProcessTurn

\* _play_game: check_game_end() after the round
LoopCheckGameEnd ==
    /\ op.name = "process_turn"
    /\ is_round_over(hand)
    /\ CheckGameEnd

NextLoop ==
    \/ \E shuffled \in FullShuffles : LoopStartRound(shuffled)
    \/ \E p \in Players : LoopSelect(p)
    \/ LoopProcessTurn
    \/ LoopCheckGameEnd

SpecLoop == InitLoop /\ [][NextLoop]_vars

\* the condition under which the loop has a step to take: the guards of the
\* four actions, none of which fails once its guard holds
LoopEnabled ==
    \/ ~is_game_over /\ (op.name = "Game" \/ op.name = "check_game_end")
    \/ \E p \in Players :
          /\ rows # None
          /\ op.name # "check_game_end"
          /\ ~is_round_over(hand)
          /\ \A q \in Players : q < p => selected[q] # None
          /\ selected[p] = None
    \/ all_players_selected(selected)
    \/ op.name = "process_turn" /\ is_round_over(hand)

\* the loop goes on as long as a step of it is possible: WF_vars(NextLoop),
\* with ENABLED <<NextLoop>>_vars stated as LoopEnabled
FairLoop == SpecLoop /\ ([]<>~LoopEnabled \/ []<><<NextLoop>>_vars)

\* ------------------------------------------------------ direct Table calls
\* A Table built from 4 seed cards in ascending order, taken from the cards
\* 1..NUM_ROWS+1, and then driven through Table.place_card with cards
\* 1..MaxTableCard.
TableSeeds ==
    {sc \in [1..NUM_ROWS -> 1..(NUM_ROWS + 1)] : \A i \in 1..(NUM_ROWS - 1) : sc[i] < sc[i + 1]}

InitTable ==
    /\ \E sc \in TableSeeds : IsGame([NewGame EXCEPT !.rows = Table(sc)])
    /\ op = TableOp("Table", FALSE, 0, None, None)
    /\ forced_calls = 0
    /\ table_ops = 0
    /\ row = None

gameVarsButRows == <<round_number, turn_number, deck, hand, selected, total_score,
                     round_score, forced, turn_results, forced_calls, is_game_over, winner>>

\* table.place_card(card, forced_row)
TablePlaceCard(card, forced_row) ==
    LET r == Table_place_card(rows, card, forced_row) IN
    /\ table_ops < MaxTableOps
    /\ rows' = r.rows
    /\ op' = [TableOp(IF forced_row = None THEN "Table.place_card"
                      ELSE "Table.place_card forced", r.raised, card, r.row_index, r.wiped)
              EXCEPT !.forced_row = forced_row]
    /\ table_ops' = table_ops + 1
    /\ UNCHANGED <<gameVarsButRows, row>>

NextTable ==
    \E c \in 1..MaxTableCard :
        \E f \in {None} \cup {Some(i) : i \in -1..NUM_ROWS} : TablePlaceCard(c, f)

SpecTable == InitTable /\ [][NextTable]_vars

\* -------------------------------------------------------- direct Row calls
\* A Row built from one card and then driven through its own methods with
\* cards 1..MaxTableCard.
InitRow ==
    /\ IsGame(NewGame)
    /\ op = TableOp("Row", FALSE, 0, None, None)
    /\ forced_calls = 0
    /\ table_ops = 0
    /\ \E starting_card \in 1..MaxTableCard : row = Some(<<starting_card>>)

\* row.place_card(card)
RowPlaceCard(card) ==
    LET r == Row_place_card(Get(row), card) IN
    /\ row' = Some(r.cards)
    /\ op' = TableOp("Row.place_card", r.raised, card, None, r.wiped)
    /\ UNCHANGED <<gameVarsButRows, rows, table_ops>>

\* row.wipe_and_replace(new_card)
RowWipeAndReplace(new_card) ==
    LET r == wipe_and_replace(Get(row), new_card) IN
    /\ row' = Some(r.cards)
    /\ op' = TableOp("Row.wipe_and_replace", FALSE, new_card, None, Some(r.wiped))
    /\ UNCHANGED <<gameVarsButRows, rows, table_ops>>

NextRow ==
    \/ \E c \in 1..MaxTableCard : RowPlaceCard(c)
    \/ \E c \in 1..MaxTableCard : RowWipeAndReplace(c)

SpecRow == InitRow /\ [][NextRow]_vars

\* ------------------------------------------------ direct Row or Table calls
\* Either a Table or a Row on its own, driven through its placement methods.
InitPlace == InitTable \/ InitRow

NextPlace ==
    \/ rows # None /\ NextTable
    \/ row # None /\ NextRow

SpecPlace == InitPlace /\ [][NextPlace]_vars

\* ============================================================== properties
TurnDone == op.name = "process_turn" /\ ~op.raised
TurnRaised == op.name = "process_turn" /\ op.raised

\* the table after one recorded placement: a wipe leaves only the card,
\* any other placement adds the card at the end of the row
ApplyResult(rs, res) ==
    [rs EXCEPT ![res.row_index + 1] =
        IF res.wiped # None THEN <<res.card>> ELSE Append(@, res.card)]

\* the table after the first k recorded placements of a turn
RECURSIVE Replay(_, _, _)
Replay(rs, results, k) ==
    IF k = 0 THEN rs ELSE ApplyResult(Replay(rs, results, k - 1), results[k])

Count(s, x) == Cardinality({i \in 1..Len(s) : s[i] = x})

RowIndices(results) == [k \in 1..Len(results) |-> results[k].row_index]

IsE2ETurn ==
    /\ rows = Table(<<10, 20, 30, 40>>)
    /\ selected = <<Some(15), Some(25), Some(5)>>

\* C1: in a successful process_turn the k-th resolved player's decision is the
\* one must_wipe_row / find_target_row give on the table as changed by the
\* first k-1 placements of the same turn, and the table after the turn is the
\* result of these placements; with seeds 10,20,30,40, cards 15, 25, 5 and row 1
\* registered for the player of card 5 the rows chosen are 1, 0, 0.
StepC1 ==
    (op'.name = "process_turn" /\ ~op'.raised) =>
        /\ \A k \in 1..Len(turn_results') :
             LET res == turn_results'[k]
                 t   == Replay(rows, turn_results', k - 1)
             IN IF must_wipe_row(t, res.card)
                THEN res.wiped = Some(t[res.row_index + 1])
                ELSE /\ res.row_index = Get(find_target_row(t, res.card))
                     /\ res.wiped # None => Len(t[res.row_index + 1]) = MAX_CARDS - 1
        /\ rows' = Replay(rows, turn_results', Len(turn_results'))
        /\ (IsE2ETurn /\ forced[3] = Some(1)) => RowIndices(turn_results') = <<1, 0, 0>>

TheoremC1 == [][StepC1]_vars

\* a turn in which the second and third placement both depend on earlier ones
WitnessC1 ==
    /\ TurnDone
    /\ Len(turn_results) = 3
    /\ [k \in 1..3 |-> turn_results[k].card] = <<5, 15, 25>>
    /\ RowIndices(turn_results) = <<1, 0, 0>>
    /\ rows = <<<<10, 15, 25>>, <<5>>, <<30>>, <<40>>>>

\* C2: a successful process_turn returns one entry per player, in strictly
\* ascending order of card value, each with the card its player had selected.
StepC2 ==
    (op'.name = "process_turn" /\ all_players_selected(selected)) =>
        /\ ~op'.raised
        /\ Len(turn_results') = NumPlayers
        /\ {turn_results'[k].player : k \in 1..Len(turn_results')} = Players
        /\ \A k \in 1..Len(turn_results') :
               turn_results'[k].card = Get(selected[turn_results'[k].player])
        /\ \A k \in 1..(Len(turn_results') - 1) :
               turn_results'[k].card < turn_results'[k + 1].card

StepC3 ==
    (op'.name = "process_turn" /\ IsE2ETurn /\ forced[3] = Some(0)) =>
        /\ ~op'.raised
        /\ turn_results' =
              << [player |-> 3, card |-> 5,  row_index |-> 0, wiped |-> Some(<<10>>)],
                 [player |-> 1, card |-> 15, row_index |-> 0, wiped |-> None],
                 [player |-> 2, card |-> 25, row_index |-> 1, wiped |-> None] >>
        /\ rows'[1] = <<5, 15>>
        /\ rows'[2] = <<20, 25>>
        /\ total_score' = <<0, 0, 3>>
        /\ round_score' = <<0, 0, 3>>

TheoremC3 == [][StepC3]_vars

WitnessC3 ==
    /\ TurnDone
    /\ rows = <<<<5, 15>>, <<20, 25>>, <<30>>, <<40>>>>
    /\ Len(turn_results) = 3
    /\ turn_results[1] = [player |-> 3, card |-> 5, row_index |-> 0, wiped |-> Some(<<10>>)]
    /\ total_score[3] = 3

\* C4: process_turn called while some player has no pending selection raises
\* and leaves turn number, table, hands, selections, scores and the stored
\* turn results as they were.
StepC4 ==
    (op'.name = "process_turn" /\ ~all_players_selected(selected)) =>
        /\ op'.raised
        /\ UNCHANGED <<round_number, turn_number, rows, hand, selected, total_score,
                       round_score, turn_results>>

TheoremC4 == [][StepC4]_vars

\* a failed process_turn with some but not all players selected, after a turn
WitnessC4 ==
    /\ TurnRaised
    /\ \E p, q \in Players : selected[p] # None /\ selected[q] = None
    /\ turn_number = 1
    /\ turn_results # <<>>

\* C5: after a successful process_turn the turn number is one higher, no
\* player has a pending selection, and every hand has lost exactly the card
\* its player had selected.
StepC5 ==
    (op'.name = "process_turn" /\ ~op'.raised) =>
        /\ turn_number' = turn_number + 1
        /\ \A p \in Players :
             /\ selected'[p] = None
             /\ Len(hand'[p]) = Len(hand[p]) - 1
             /\ \A c \in SeqToSet(hand[p]) :
                    Count(hand'[p], c) =
                        Count(hand[p], c) - (IF c = Get(selected[p]) THEN 1 ELSE 0)
             /\ SeqToSet(hand'[p]) \subseteq SeqToSet(hand[p])

TheoremC5 == [][StepC5]_vars

\* a resolved turn in which some player played a card other than the lowest held
WitnessC5 ==
    /\ TurnDone
    /\ \E k \in 1..Len(turn_results) :
          LET res == turn_results[k] IN
          /\ hand[res.player] # <<>>
          /\ \E c \in SeqToSet(hand[res.player]) : c < res.card

PointsOf(cards) == SumSeq([i \in 1..Len(cards) |-> points(cards[i])])

\* C6: in process_turn each player's round score and total score grow by the
\* sum of the points of the cards in that player's own wiped list, and by 0
\* when the player's entry has no wiped cards.
StepC6 ==
    (op'.name = "process_turn" /\ ~op'.raised) =>
        \A k \in 1..Len(turn_results') :
            LET res == turn_results'[k]
                due == IF res.wiped = None THEN 0 ELSE PointsOf(Get(res.wiped))
            IN /\ round_score'[res.player] = round_score[res.player] + due
               /\ total_score'[res.player] = total_score[res.player] + due

TheoremC6 == [][StepC6]_vars

\* a turn in which one player took several cards worth more than their number
\* while another player scored nothing
WitnessC6 ==
    /\ TurnDone
    /\ \E k \in 1..Len(turn_results) :
          LET res == turn_results[k] IN
          /\ res.wiped # None
          /\ Len(Get(res.wiped)) >= 2
          /\ PointsOf(Get(res.wiped)) > Len(Get(res.wiped))
          /\ total_score[res.player] >= PointsOf(Get(res.wiped))
    /\ \E p \in Players : total_score[p] = 0

\* the cards the players resolved after position k placed on row r without a wipe
RECURSIVE LaterOnRow(_, _, _)
LaterOnRow(results, k, r) ==
    IF k >= Len(results) THEN <<>>
    ELSE (IF results[k + 1].row_index = r THEN <<results[k + 1].card>> ELSE <<>>)
             \o LaterOnRow(results, k + 1, r)

\* C7: when process_turn resolves a player whose card no row accepts, the row
\* wiped is the one registered for that player if any and row 0 otherwise, the
\* wiped list is that row's whole content at that moment, in order, and the row
\* restarts with the player's card alone (followed only by what later players
\* of the turn add to it).
StepC7 ==
    (op'.name = "process_turn" /\ ~op'.raised) =>
        \A k \in 1..Len(turn_results') :
            LET res == turn_results'[k]
                t   == Replay(rows, turn_results', k - 1)
            IN (\A i \in 1..NUM_ROWS : ~(res.card > last_card(t[i]) /\ Len(t[i]) < MAX_CARDS)) =>
                 /\ res.row_index = (IF forced[res.player] # None
                                     THEN Get(forced[res.player]) ELSE 0)
                 /\ res.wiped = Some(t[res.row_index + 1])
                 /\ (\A j \in (k + 1)..Len(turn_results') :
                        turn_results'[j].row_index = res.row_index
                            => turn_results'[j].wiped = None)
                    => rows'[res.row_index + 1] =
                          <<res.card>> \o LaterOnRow(turn_results', k, res.row_index)

TheoremC7 == [][StepC7]_vars

\* a registered row other than row 0, holding several cards, was wiped
WitnessC7 ==
    /\ TurnDone
    /\ \E k \in 1..Len(turn_results) :
          LET res == turn_results[k] IN
          /\ res.wiped # None
          /\ Len(Get(res.wiped)) \in 2..(MAX_CARDS - 2)
          /\ res.row_index # 0

\* C8: after any process_turn that returns, no player holds a recorded override.
CexC8 == TurnDone => \A p \in Players : forced[p] = None

\* C9: Row.place_card of an accepted card on a row of 4 cards returns these 4
\* cards in order and leaves the card alone in the row; on a row of 1 to 3
\* cards it appends the card and returns None.
StepC9 ==
    (op'.name = "Row.place_card") =>
        LET old  == Get(row)
            new  == Get(row')
            card == op'.card
        IN card > old[Len(old)] =>
             /\ Len(old) = 4 =>
                   /\ ~op'.raised
                   /\ op'.wiped = Some(old)
                   /\ new = <<card>>
             /\ Len(old) \in 1..3 =>
                   /\ ~op'.raised
                   /\ op'.wiped = None
                   /\ new = old \o <<card>>

TheoremC9 == [][StepC9]_vars

\* a fifth card has just been placed with Row.place_card
WitnessC9 ==
    /\ op.name = "Row.place_card"
    /\ ~op.raised
    /\ op.wiped # None
    /\ Len(Get(op.wiped)) = 4
    /\ row = Some(<<op.card>>)

\* C10: between operations the table has exactly 4 rows and every row holds
\* 1 to 4 cards: never empty, never 5 (is_full is false).
TheoremC10 ==
    /\ rows # None =>
          /\ Len(rows) = 4
          /\ \A i \in 1..Len(rows) : Len(rows[i]) \in 1..4 /\ ~is_full(rows[i])
    /\ row # None => Len(Get(row)) \in 1..4 /\ ~is_full(Get(row))

\* Table.place_card has just put a fifth card on a row
WitnessC10 ==
    /\ op.name = "Table.place_card"
    /\ op.wiped # None
    /\ Len(Get(op.wiped)) = 4
    /\ rows[Get(op.row_index) + 1] = <<op.card>>

\* C11: in every reachable state each row's cards are strictly increasing from
\* first to last.
Increasing(cards) == \A k \in 1..(Len(cards) - 1) : cards[k] < cards[k + 1]

TheoremC11 == rows # None => \A i \in 1..Len(rows) : Increasing(rows[i])

\* a forced placement has just wiped a row while another row holds 3 cards or more
WitnessC11 ==
    /\ op.name = "Table.place_card forced"
    /\ ~op.raised
    /\ Len(Get(op.wiped)) >= 2
    /\ \E i \in 1..Len(rows) : Len(rows[i]) >= 3

\* C12: find_target_row(card) returns an accepting row (last card lower than
\* the card, row not full) with the smallest difference card - last card, that
\* is the accepting row with the highest last card; it returns None exactly
\* when no row accepts the card, and must_wipe_row(card) is true exactly then.
Accepts(cards, card) == cards[Len(cards)] < card /\ Len(cards) < MAX_CARDS

AcceptingRows(rs, card) == {i \in 0..(Len(rs) - 1) : Accepts(rs[i + 1], card)}

StepC12 ==
    (op'.name = "Table.place_card") =>
        LET card == op'.card IN
        /\ op'.row_index = find_target_row(rows, card)
        /\ op'.raised = must_wipe_row(rows, card)
        /\ IF op'.row_index = None
           THEN /\ \A i \in 1..Len(rows) : ~Accepts(rows[i], card)
                /\ op'.raised
           ELSE LET target == rows[Get(op'.row_index) + 1] IN
                /\ Accepts(target, card)
                /\ \A i \in 1..Len(rows) :
                      Accepts(rows[i], card) =>
                          /\ card - target[Len(target)] <= card - rows[i][Len(rows[i])]
                          /\ rows[i][Len(rows[i])] <= target[Len(target)]
                /\ ~op'.raised

TheoremC12 == [][StepC12]_vars

\* Table.place_card has just put a card on the closest of two accepting rows
\* that was not the first of them, and some card is accepted by no row
WitnessC12 ==
    /\ op.name = "Table.place_card"
    /\ ~op.raised
    /\ op.wiped = None
    /\ LET i == Get(op.row_index)
           before == SubSeq(rows[i + 1], 1, Len(rows[i + 1]) - 1)
       IN \E j \in 0..(i - 1) :
              /\ rows[j + 1][Len(rows[j + 1])] < before[Len(before)]
              /\ rows[j + 1][Len(rows[j + 1])] < op.card
    /\ \E card \in 1..MaxTableCard : must_wipe_row(rows, card)

\* C13: Table.place_card without a forced row, for a card that no row accepts,
\* raises and leaves all four rows unchanged; Row.place_card of a card not
\* greater than the row's last card raises and leaves the row unchanged.
StepC13 ==
    /\ (op'.name = "Table.place_card" /\ AcceptingRows(rows, op'.card) = {}) =>
           /\ op'.raised
           /\ rows' = rows
    /\ (op'.name = "Row.place_card" /\ ~(op'.card > Get(row)[Len(Get(row))])) =>
           /\ op'.raised
           /\ row' = row

TheoremC13 == [][StepC13]_vars

\* Table.place_card has just raised on a table with a row of several cards
WitnessC13 ==
    /\ op.name = "Table.place_card"
    /\ op.raised
    /\ AcceptingRows(rows, op.card) = {}
    /\ \E i \in 1..Len(rows) : Len(rows[i]) >= 2

\* C14: Table.place_card with a forced row index in 0..3 always succeeds,
\* whether or not a row accepts the card: it returns that index and the whole
\* previous content of that row, leaves only the card in that row and leaves
\* the other rows unchanged; with an index outside 0..3 it raises and no row
\* changes.
StepC14 ==
    (op'.name = "Table.place_card forced") =>
        LET card       == op'.card
            forced_row == Get(op'.forced_row)
        IN  IF forced_row \in 0..3
            THEN /\ ~op'.raised
                 /\ op'.row_index = Some(forced_row)
                 /\ op'.wiped = Some(rows[forced_row + 1])
                 /\ rows'[forced_row + 1] = <<card>>
                 /\ Len(rows') = Len(rows)
                 /\ \A i \in 1..Len(rows) : i # forced_row + 1 => rows'[i] = rows[i]
            ELSE /\ op'.raised
                 /\ rows' = rows

TheoremC14 == [][StepC14]_vars

\* a forced placement has just wiped a row of several cards that accepted the card
WitnessC14 ==
    /\ op.name = "Table.place_card forced"
    /\ ~op.raised
    /\ Len(Get(op.wiped)) >= 2
    /\ Get(op.wiped)[Len(Get(op.wiped))] < op.card
    /\ rows[Get(op.row_index) + 1] = <<op.card>>

\* C15: after any call of start_new_round, in whatever state it is called,
\* every player's hand holds exactly CARDS_PER_PLAYER cards.
CexC15 ==
    (op.name = "start_new_round") => \A p \in Players : Len(hand[p]) = CARDS_PER_PLAYER

\* C16: start_new_round raises the round number by 1, sets the turn number to
\* 0, clears every selection, sets every round score to 0, leaves every total
\* score unchanged and installs a table of 4 single-card rows whose seeds
\* increase with the row index.
StepC16 ==
    (op'.name = "start_new_round") =>
        /\ round_number' = round_number + 1
        /\ turn_number' = 0
        /\ \A p \in Players : selected'[p] = None
        /\ \A p \in Players : round_score'[p] = 0
        /\ total_score' = total_score
        /\ Len(rows') = 4
        /\ \A i \in 1..4 : Len(rows'[i]) = 1
        /\ \A i \in 1..3 : rows'[i][1] < rows'[i + 1][1]

TheoremC16 == [][StepC16]_vars

\* a round has just been started in the middle of the previous one, after a
\* turn that gave penalty points
WitnessC16 ==
    /\ op.name = "start_new_round"
    /\ round_number >= 2
    /\ \E p \in Players : total_score[p] \in 1..(GAME_END_SCORE - 1)
    /\ \E p \in Players : Len(hand[p]) > CARDS_PER_PLAYER
    /\ \A p \in Players : round_score[p] = 0 /\ selected[p] = None

\* C17: check_game_end returns true exactly when some total score is greater
\* than 50; when it returns false it leaves is_game_over and winner (and the
\* rest of the game) unchanged; a second call right after it returns the same
\* result and leaves the state as the first call left it.
StepC17 ==
    (op'.name = "check_game_end") =>
        LET returned == Get(op'.returned) IN
        /\ returned <=> (\E p \in Players : total_score[p] > 50)
        /\ ~returned => (is_game_over' = is_game_over /\ winner' = winner /\ Game' = Game)
        /\ check_game_end(Game') = [returned |-> returned, g |-> Game']

TheoremC17 == [][StepC17]_vars

\* check_game_end has just returned false with a player at exactly 50 points
WitnessC17 ==
    /\ op.name = "check_game_end"
    /\ op.returned = Some(FALSE)
    /\ \E p \in Players : total_score[p] = 50
    /\ ~is_game_over

GameEnded == op.name = "check_game_end" /\ op.returned = Some(TRUE)

\* C18 as stated: when check_game_end returns true, every other player's total
\* score is strictly greater than the recorded winner's.
CexC18 ==
    GameEnded =>
        /\ winner # None
        /\ \A q \in Players \ {Get(winner)} : total_score[q] > total_score[Get(winner)]

\* C18 as amended: when check_game_end returns true, the recorded winner is a
\* player with the lowest total score: every other player's total score is
\* greater than or equal to the winner's.
TheoremC18 ==
    GameEnded =>
        /\ winner # None
        /\ \A q \in Players \ {Get(winner)} : total_score[q] >= total_score[Get(winner)]

\* check_game_end has just returned true with two players sharing the lowest
\* total score, above zero
WitnessC18 ==
    /\ GameEnded
    /\ total_score[Get(winner)] > 0
    /\ \E q \in Players \ {Get(winner)} : total_score[q] = total_score[Get(winner)]
    /\ \E q \in Players : total_score[q] > total_score[Get(winner)]

\* C19: once check_game_end has returned true, is_game_over stays true and
\* winner keeps referring to the same player, whatever is called afterwards.
StepC19 == is_game_over => (is_game_over' /\ winner' = winner)

CexC19 == [][StepC19]_vars

\* C20: in every reachable state winner is set if and only if is_game_over is
\* true, and is_game_over is true only if some total score is greater than 50.
TheoremC20 ==
    /\ (winner # None) <=> is_game_over
    /\ is_game_over => \E p \in Players : total_score[p] > 50

\* the game is over and a further round has been started and played
WitnessC20 ==
    /\ is_game_over
    /\ winner # None
    /\ round_number >= 2
    /\ op.name = "process_turn"
    /\ ~op.raised

\* C21: is_round_over is true exactly when every hand is empty; in a round
\* started with empty hands it is false after start_new_round and after each
\* of the first CARDS_PER_PLAYER - 1 successful process_turn calls, and true
\* after the last one.
TheoremC21 ==
    /\ is_round_over(hand) <=> (\A p \in Players : hand[p] = <<>>)
    /\ turn_number \in 0..CARDS_PER_PLAYER
    /\ is_round_over(hand) <=> (turn_number = CARDS_PER_PLAYER)

\* the last turn of the round has just been resolved
WitnessC21 ==
    /\ TurnDone
    /\ turn_number = CARDS_PER_PLAYER
    /\ is_round_over(hand)

\* C22: select_card_for_player fails when the card is not in the player's
\* hand or when the player already has a pending selection, and then hands
\* and selections are unchanged; on success the selection becomes that card
\* and the card stays in the hand.
StepC22 ==
    op'.name = "select_card_for_player" /\ op'.player \in Players =>
        LET p == op'.player
            c == op'.card
        IN /\ op'.raised <=> (c \notin SeqToSet(hand[p]) \/ selected[p] # None)
           /\ hand' = hand
           /\ op'.raised => selected' = selected
           /\ ~op'.raised =>
                 /\ selected' = [selected EXCEPT ![p] = Some(c)]
                 /\ c \in SeqToSet(hand'[p])

TheoremC22 == [][StepC22]_vars

\* a call with a card of the hand has failed on the pending selection
WitnessC22 ==
    /\ op.name = "select_card_for_player"
    /\ op.player \in Players
    /\ op.raised
    /\ op.card \in SeqToSet(hand[op.player])
    /\ selected[op.player] # None
    /\ selected[op.player] # Some(op.card)

\* C23: over start_new_round, select_card_for_player, clear_all_selections
\* and process_turn, a pending selection is always a card of the player's hand.
TheoremC23 ==
    \A p \in Players : selected[p] # None => Get(selected[p]) \in SeqToSet(hand[p])

\* a selection is pending after a turn was played and a new round started on
\* top of the remaining hands
WitnessC23 ==
    /\ round_number = 2
    /\ \E p \in Players : selected[p] # None /\ Len(hand[p]) > CARDS_PER_PLAYER

\* C24: across any sequence of Game operations every total score is
\* non-negative and never decreases; the round score is non-negative, never
\* decreases between two start_new_round calls, and never exceeds the total.
StepC24 ==
    \A p \in Players :
        /\ 0 <= total_score[p]
        /\ total_score[p] <= total_score'[p]
        /\ 0 <= round_score[p] /\ 0 <= round_score'[p]
        /\ round_score[p] <= total_score[p]
        /\ round_score'[p] <= total_score'[p]
        /\ op'.name # "start_new_round" => round_score[p] <= round_score'[p]

TheoremC24 == [][StepC24]_vars

\* a second round in which a player has taken a row, after penalty points in
\* the first round
WitnessC24 ==
    /\ round_number = 2
    /\ TurnDone
    /\ \E p \in Players : 0 < round_score[p] /\ round_score[p] < total_score[p]

\* every position that holds a card: <<"hand", p, i>> and <<"row", r, i>>
CardPositions ==
    {<<"hand", p, i>> : p \in Players, i \in 1..(HandSize * MaxRounds)}
        \cup {<<"row", r, i>> : r \in 1..NUM_ROWS, i \in 1..MAX_CARDS}

Holds(pos) ==
    IF pos[1] = "hand"
    THEN pos[3] <= Len(hand[pos[2]])
    ELSE rows # None /\ pos[3] <= Len(rows[pos[2]])

CardAt(pos) == IF pos[1] = "hand" THEN hand[pos[2]][pos[3]] ELSE rows[pos[2]][pos[3]]

\* C25: in every state reachable by Game operations, start_new_round before
\* the end of a round included, no card identity is held twice: not twice in
\* a hand, not in two hands, not in two row positions, not in a hand and on
\* the table.
CexC25 ==
    \A a, b \in CardPositions :
        Holds(a) /\ Holds(b) /\ a # b => CardAt(a) # CardAt(b)

\* C26: get_players_needing_row_choice is a pure query: after it returns, the
\* live rows, every hand, selection and score, and the game state are as
\* before the call.
StepC26 ==
    op'.name = "get_players_needing_row_choice" =>
        /\ ~op'.raised
        /\ UNCHANGED <<rows, hand, selected, total_score, round_score>>
        /\ UNCHANGED <<round_number, turn_number, is_game_over, winner>>
        /\ UNCHANGED <<deck, forced, turn_results>>

TheoremC26 == [][StepC26]_vars

\* the query has found a forced wipe and placed a later card on its preview
WitnessC26 ==
    /\ op.name = "get_players_needing_row_choice"
    /\ op.returned # None
    /\ Len(Get(op.returned)) = 1
    /\ all_players_selected(selected)

\* the (player, card) pairs of the recorded placements, from the k-th on, whose
\* card no row accepted on the table rs as it was when the card was resolved
RECURSIVE ForcedPairs(_, _, _)
ForcedPairs(rs, results, k) ==
    IF k > Len(results) THEN <<>>
    ELSE (IF must_wipe_row(rs, results[k].card)
          THEN << <<results[k].player, results[k].card>> >>
          ELSE <<>>)
         \o ForcedPairs(ApplyResult(rs, results[k]), results, k + 1)

\* C27: when all players have selected and all cards are distinct, the list
\* get_players_needing_row_choice returns is exactly the list of (player,
\* card) pairs the immediately following process_turn resolves through the
\* forced-wipe path, in the same order, whichever rows are chosen.
StepC27 ==
    op'.name = "process_turn" /\ ~op'.raised =>
        get_players_needing_row_choice(Game).returned = ForcedPairs(rows, turn_results', 1)

TheoremC27 == [][StepC27]_vars

\* a forced player took a row other than row 0 and other players came after
WitnessC27 ==
    /\ TurnDone
    /\ \E k \in 1..(Len(turn_results) - 1) :
          /\ turn_results[k].wiped # None
          /\ turn_results[k].row_index > 0

\* C28: Deck.deal_cards(n) with n greater than the number of remaining cards
\* fails and removes no card; otherwise it returns n cards and the remaining
\* count drops by exactly n; deal_card on an empty deck fails.
StepC28 ==
    /\ op'.name = "Deck.deal_cards" =>
          /\ op'.raised <=> op'.count > Len(deck)
          /\ op'.raised => deck' = deck
          /\ ~op'.raised =>
                /\ Len(Get(op'.returned)) = op'.count
                /\ Len(deck') = Len(deck) - op'.count
                /\ deck = deck' \o Reverse(Get(op'.returned))
    /\ op'.name = "Deck.deal_card" =>
          /\ op'.raised <=> deck = <<>>
          /\ op'.raised => deck' = deck

TheoremC28 == [][StepC28]_vars

\* deal_cards(5) has failed on a deck of 4 cards, which it still holds
WitnessC28 ==
    /\ op.name = "Deck.deal_cards"
    /\ op.raised
    /\ op.count = STARTING_ROWS + 1
    /\ Len(deck) = STARTING_ROWS

\* C29: for every player count P in 3..10, start_new_round never fails for
\* lack of cards: it deals 10 * P + 4 pairwise distinct identities from a deck
\* reset to exactly the identities 1..104 and leaves 100 - 10 * P cards in
\* the deck (none when P = 10), in every round.
StepC29 ==
    op'.name = "start_new_round" =>
        LET P == op'.count
            dealt == Get(op'.returned)
        IN /\ P \in 3..10 /\ P = Len(hand')
           /\ ~op'.raised
           /\ Len(dealt) = 10 * P + 4
           /\ Cardinality(SeqToSet(dealt)) = Len(dealt)
           /\ Len(deck') = 100 - 10 * P
           /\ P = 10 => deck' = <<>>
           /\ SeqToSet(dealt) \cup SeqToSet(deck') = 1..104
           /\ rows' = Table(SortCards(SubSeq(dealt, 1, 4)))
           /\ \A p \in 1..P :
                 hand'[p] = SortCards(hand[p] \o SubSeq(dealt, 10 * p - 5, 10 * p + 4))

TheoremC29 == [][StepC29]_vars

\* the second round of a game of ten players has used up the deck
WitnessC29 ==
    /\ op.name = "start_new_round"
    /\ op.count = 10
    /\ round_number = 2
    /\ deck = <<>>

\* C30: for every identity 1..104, Card.points is 7 for 55, else 5 for the
\* multiples of 11, else 3 for the multiples of 10, else 2 for the multiples
\* of 5, else 1; the result is always in 1..7.
TheoremC30 ==
    op.name = "Card.points" =>
        LET value == op.card
            result == Get(op.returned)
        IN /\ value \in 1..104
           /\ result \in 1..7
           /\ result = 7 <=> value = 55
           /\ result = 5 <=> value \in {11, 22, 33, 44, 66, 77, 88, 99}
           /\ result = 3 <=> value \in {10, 20, 30, 40, 50, 60, 70, 80, 90, 100}
           /\ result = 2 <=> value \in {5, 15, 25, 35, 45, 65, 75, 85, 95}
           /\ result = 1 <=> (value % 5 # 0 /\ value % 11 # 0)

\* the points of card 55, a multiple of 11 and of 5
WitnessC30 ==
    /\ op.name = "Card.points"
    /\ op.card = 55
    /\ op.returned = Some(7)

\* C31: Game construction succeeds exactly when there are between 3 and 10
\* names and the names, once trimmed, are all non-empty and pairwise distinct
\* (case matters); otherwise it fails and no Game is created.
StepC31 ==
    op'.name = "Game" =>
        LET names == op'.names
            blank(name) == \A i \in 1..Len(name) : name[i] \in Whitespace
            valid == /\ 3 <= Len(names) /\ Len(names) <= 10
                     /\ \A i \in 1..Len(names) : ~blank(names[i])
                     /\ \A i, j \in 1..Len(names) :
                           i # j => strip(names[i]) # strip(names[j])
        IN /\ ~op'.raised <=> valid
           /\ op'.raised => IsGame(NoGame) /\ UNCHANGED <<gameVarsButDeck, deck>>
           /\ ~op'.raised =>
                 /\ Len(hand') = Len(names)
                 /\ rows' = None /\ round_number' = 0
                 /\ Get(op'.returned) = [i \in 1..Len(names) |-> strip(names[i])]

TheoremC31 == [][StepC31]_vars

\* three names of which two are equal once trimmed: no Game
WitnessC31 ==
    /\ op.name = "Game"
    /\ op.raised
    /\ Len(op.names) = 3
    /\ op.names[1] # op.names[2]
    /\ strip(op.names[1]) = strip(op.names[2])

\* the last cards of the rows rs are pairwise distinct
DistinctLastCards(rs) ==
    \A i, j \in 1..NUM_ROWS : i # j => last_card(rs[i]) # last_card(rs[j])

\* find_target_row with the rows scanned from the last to the first
FindTargetRowBackwards(rs, card) ==
    LET target_row == find_target_row(Reverse(rs), card) IN
    IF target_row = None THEN None ELSE Some(NUM_ROWS - 1 - Get(target_row))

\* C32: when every round is started with all hands empty, the last cards of
\* the four rows are pairwise distinct in every state, and on every table
\* find_target_row is called on during a turn no two accepting rows have the
\* same gap, so that the result does not depend on the scanning order.
StepC32 ==
    /\ rows' # None => DistinctLastCards(rows')
    /\ op'.name = "process_turn" /\ ~op'.raised =>
          \A k \in 1..Len(turn_results') :
              LET rs == Replay(rows, turn_results', k - 1)
                  card == turn_results'[k].card
              IN /\ DistinctLastCards(rs)
                 /\ \A i, j \in 1..NUM_ROWS :
                       i # j /\ card > last_card(rs[i]) /\ card > last_card(rs[j])
                           => card - last_card(rs[i]) # card - last_card(rs[j])
                 /\ find_target_row(rs, card) = FindTargetRowBackwards(rs, card)

TheoremC32 == [][StepC32]_vars

\* in a second round a card was placed on a row other than the first
WitnessC32 ==
    /\ TurnDone
    /\ round_number = 2
    /\ \E k \in 1..Len(turn_results) :
          /\ turn_results[k].wiped = None
          /\ turn_results[k].row_index > 0

\* the recorded placement took a row none of whose cards let the card in:
\* the wiped row held a card above the card played
ForcedWipe(res) ==
    res.wiped # None /\ \E i \in 1..Len(Get(res.wiped)) : Get(res.wiped)[i] > res.card

\* C33: in a process_turn over distinct selected cards at most one player is
\* resolved through the forced-wipe path, and only the player with the lowest
\* card: every later card is greater than the card just placed, whose row
\* accepts it.
StepC33 ==
    op'.name = "process_turn" /\ ~op'.raised =>
        /\ Len(turn_results') = NumPlayers
        /\ \A k \in 2..Len(turn_results') :
              LET rs == Replay(rows, turn_results', k - 1)
                  before == turn_results'[k - 1]
                  res == turn_results'[k]
              IN /\ ~ForcedWipe(res)
                 /\ res.card > before.card
                 /\ last_card(rs[before.row_index + 1]) = before.card
                 /\ can_place_card(rs[before.row_index + 1], res.card)
                 /\ ~must_wipe_row(rs, res.card)
        /\ ForcedWipe(turn_results'[1]) <=> must_wipe_row(rows, turn_results'[1].card)
        /\ rows' = Replay(rows, turn_results', Len(turn_results'))

TheoremC33 == [][StepC33]_vars

\* the lowest card forced a wipe and the next card went on top of it
WitnessC33 ==
    /\ TurnDone
    /\ ForcedWipe(turn_results[1])
    /\ turn_results[2].row_index = turn_results[1].row_index
    /\ turn_results[2].wiped = None

\* C34: process_turn is all-or-nothing: once a round has been started and
\* every player has a pending selection it does not raise, every player has
\* then played, and when it raises nothing has changed; no state has players
\* who have played next to players who still hold the turn's selection.
StepC34 ==
    op'.name = "process_turn" =>
        /\ rows # None /\ all_players_selected(selected) =>
              /\ ~op'.raised
              /\ \A p \in Players :
                    /\ selected'[p] = None
                    /\ Len(hand'[p]) = Len(hand[p]) - 1
        /\ op'.raised =>
              /\ ~all_players_selected(selected)
              /\ UNCHANGED <<rows, hand, selected, total_score, round_score, forced,
                             turn_results, turn_number, round_number>>
        /\ \A p, q \in Players : Len(hand'[p]) = Len(hand'[q])

TheoremC34 == [][StepC34]_vars

\* a turn has gone through in which a registered row choice was used for a
\* forced wipe
WitnessC34 ==
    /\ TurnDone
    /\ ForcedWipe(turn_results[1])
    /\ turn_results[1].row_index = NUM_ROWS - 1
    /\ \A p \in Players : selected[p] = None

\* C35: in a round started with all hands empty every player's hand size is
\* CARDS_PER_PLAYER (10 in the code) minus the turn number between
\* operations, so all players hold the same number of cards and the turn
\* number never exceeds CARDS_PER_PLAYER.
TheoremC35 ==
    rows # None =>
        /\ turn_number \in 0..CARDS_PER_PLAYER
        /\ \A p \in Players : Len(hand[p]) = CARDS_PER_PLAYER - turn_number

\* the first turn of a second round has been played
WitnessC35 ==
    /\ TurnDone
    /\ round_number = 2
    /\ turn_number = 1
    /\ \A p \in Players : Len(hand[p]) = CARDS_PER_PLAYER - 1

\* the cards on the table rs and in the hands hd
CardsInPlay(rs, hd) ==
    UNION {SeqToSet(rs[i]) : i \in 1..NUM_ROWS} \cup UNION {SeqToSet(hd[p]) : p \in Players}

\* the cards of the deck the round was dealt from: the deck order of Shuffles
\* that has every card in play
CardsOfRound(rs, hd) ==
    UNION {SeqToSet(shuffled) :
               shuffled \in {s \in Shuffles : CardsInPlay(rs, hd) \subseteq SeqToSet(s)}}

\* the cards dealt since the deck d was reset that are neither on the table
\* rs nor in the hands hd
RemovedCards(rs, hd, d) == (CardsOfRound(rs, hd) \ SeqToSet(d)) \ CardsInPlay(rs, hd)

CardsOnTable(rs) == SumSeq([i \in 1..NUM_ROWS |-> Len(rs[i])])

CardsHeld(hd) == SumSeq([p \in Players |-> Len(hd[p])])

RECURSIVE PointsOfSet(_)
PointsOfSet(S) ==
    IF S = {} THEN 0
    ELSE LET c == CHOOSE x \in S : TRUE IN points(c) + PointsOfSet(S \ {c})

\* the cards wiped in the recorded placements, as one list
RECURSIVE WipedIn(_)
WipedIn(results) ==
    IF results = <<>> THEN <<>>
    ELSE (IF Head(results).wiped # None THEN Get(Head(results).wiped) ELSE <<>>)
             \o WipedIn(Tail(results))

\* C36: in a round started with all hands empty, between turns the sum of the
\* round scores equals the points of the cards removed from the table since
\* the round started, and cards on the table plus cards in hands plus cards
\* removed are 10 * P + 4 (CARDS_PER_PLAYER * P + STARTING_ROWS); the cards a
\* turn removes are the cards its placements wiped, and a selection or a call
\* that raises changes none of this.
StepC36 ==
    IF op'.name = "select_card_for_player" \/ op'.raised
    THEN UNCHANGED <<rows, hand, deck, round_score>>
    ELSE
        LET removed == RemovedCards(rows', hand', deck') IN
        /\ SumSeq(round_score') = PointsOfSet(removed)
        /\ CardsOnTable(rows') + CardsHeld(hand') + Cardinality(removed)
               = CARDS_PER_PLAYER * NumPlayers + STARTING_ROWS
        /\ op'.name = "start_new_round" => removed = {}
        /\ op'.name = "process_turn" /\ ~op'.raised =>
              LET wiped == WipedIn(turn_results') IN
              /\ SeqToSet(wiped) = removed \ RemovedCards(rows, hand, deck)
              /\ Len(wiped) = Cardinality(SeqToSet(wiped))
              /\ SumSeq(round_score') - SumSeq(round_score) = PointsOf(wiped)

TheoremC36 == [][StepC36]_vars

\* a turn of a second round has wiped a row of two cards or more
WitnessC36 ==
    /\ TurnDone
    /\ round_number = 2
    /\ \E k \in 1..Len(turn_results) :
          turn_results[k].wiped # None /\ Len(Get(turn_results[k].wiped)) >= 2

\* C37: at the end of every complete round with P players (10 turns from
\* empty hands) at least 10 * P - 12 cards have been wiped, so the sum of the
\* round scores is at least 10 * P - 12 and greater than 0.
TheoremC37 ==
    rows # None /\ is_round_over(hand) /\ turn_number = 10 =>
        LET P == Len(hand)
            wiped == ((1..TOTAL_CARDS) \ SeqToSet(deck)) \ CardsInPlay(rows, hand)
        IN /\ Cardinality(wiped) >= 10 * P - 12
           /\ Cardinality(wiped) = 10 * P + 4 - CardsOnTable(rows)
           /\ SumSeq(round_score) >= Cardinality(wiped)
           /\ SumSeq(round_score) >= 10 * P - 12
           /\ SumSeq(round_score) > 0

\* the tenth turn of a second round of 3 players has been resolved
WitnessC37 ==
    /\ TurnDone
    /\ round_number = 2
    /\ turn_number = 10
    /\ is_round_over(hand)
    /\ Len(deck) = TOTAL_CARDS - 34

\* C38: the game driven by the loop start_new_round, ten times (every player
\* selects, process_turn), check_game_end, repeated while check_game_end is
\* false, terminates: eventually a total score exceeds 50 and check_game_end
\* returns true.
TheoremC38 ==
    <>(/\ op.name = "check_game_end"
       /\ op.returned = Some(TRUE)
       /\ is_game_over
       /\ \E p \in Players : total_score[p] > 50)

\* the loop has ended after a second round
WitnessC38 ==
    /\ op.name = "check_game_end"
    /\ op.returned = Some(TRUE)
    /\ is_game_over
    /\ round_number = 2
    /\ turn_number = 10

\* C39: process_turn succeeds only inside a round in progress. While the table
\* is absent (before the first start_new_round) or the round is over (all
\* hands empty) nobody holds a selection, every select_card_for_player call
\* raises and leaves the game as it was, and every process_turn call raises on
\* the not-all-selected check and leaves the game as it was; so process_turn
\* is never executed while the table is absent.
NoRound == rows = None \/ is_round_over(hand)

StepC39 ==
    IF op'.name = "start_new_round" THEN TRUE
    ELSE /\ NoRound => /\ \A p \in Players : selected[p] = None
                       /\ op'.raised
                       /\ Game' = Game
         /\ (op'.name = "process_turn" /\ ~op'.raised) =>
                /\ rows # None
                /\ ~is_round_over(hand)
                /\ all_players_selected(selected)

TheoremC39 == [][StepC39]_vars

\* process_turn has raised after the last turn of the first round
WitnessC39 ==
    /\ op.name = "process_turn"
    /\ op.raised
    /\ rows # None
    /\ is_round_over(hand)
    /\ round_number = 1
    /\ turn_number = CARDS_PER_PLAYER

====
